---- MODULE Spec2Model ----
(***************************************************************************)
(* Model of pyannote/audio/embedding/generators.py:                        *)
(*   SequenceGenerator        (store build, label remap, NaN policy)       *)
(*   DerivativeBatchGenerator (batch size, steps per epoch, postprocess)   *)
(*                                                                         *)
(* A feature sequence is abstracted to what the code looks at: whether it  *)
(* holds a NaN, an infinity, or only finite numbers.  Original labels are  *)
(* byte strings; they are modelled by integers whose order is the sort     *)
(* order numpy.unique uses.                                                *)
(***************************************************************************)
EXTENDS Integers, Sequences, FiniteSets, TLC

\* ---- bounds of the model ------------------------------------------------
MaxRows == 3          \* longest corpus read by a bare SequenceGenerator
MaxDraws == 4         \* sampler draws of a bare SequenceGenerator
MaxRowsShared == 2    \* longest corpus when two instances share a cache
MaxDrawsShared == 2   \* sampler draws per instance when two share a cache
MaxRowsBatch == 2     \* longest corpus under a DerivativeBatchGenerator
MaxDrawsBatch == 4    \* sampler draws under a DerivativeBatchGenerator
MaxNLabels == 6       \* most distinct labels for get_steps_per_epoch
MaxPerFoldSteps == 4  \* largest per_fold for get_steps_per_epoch
MaxLatePulls == 1     \* pulls made on a generator that has raised
MaxRowsBuild == 1101  \* longest stream written by the on-disk build
MaxRowsLive == 2      \* longest corpus of a stream that is pulled forever

\* ---- program constants --------------------------------------------------
InitialCapacity == 1000      \* n_sequences = 1000

\* ---- value domains ------------------------------------------------------
Kinds == {"finite", "nan", "inf"}
Labels == {3, 7}
Row == [X : Kinds, y : Labels]
PerLabelValues == {1, 2}
PerFoldValues == {1, 2}
PerBatchValues == {1, 2}
NThreadsValues == {1, 4}
Embeddings == {1, 2}
Pythons == {2, 3}
FillX == "finite"     \* unwritten rows of 'X' read as zeros
FillY == 0            \* unwritten rows of 'y' read as the empty string
Wrapped == 1          \* the instance a DerivativeBatchGenerator owns

VARIABLES
    cfg,      \* constructor arguments
    corpus,   \* the (X_, y_) pairs generator_(file_generator) yields
    file,     \* the HDF5 cache file
    sg,       \* SequenceGenerator instances
    dbg,      \* the DerivativeBatchGenerator
    steps     \* last value returned by get_steps_per_epoch

vars == <<cfg, corpus, file, sg, dbg, steps>>

Gens == 1..cfg.n_gens

Min(a, b) == IF a < b THEN a ELSE b

\* ---- numpy / h5py helpers -------------------------------------------
\* a test for infinities in the place of the test for NaN
AnyIsInf(X_) == X_ = "inf"

\* np.any(np.isnan(X_))
AnyIsNan(X_) == X_ = "nan"

\* np.unique(y): the set of distinct values (kept sorted by numpy)
Unique(y) == {y[j] : j \in 1..Len(y)}

\* an inverse that ranks the labels in descending order
InverseDescending(u, l) == Cardinality({v \in u : v > l})

\* return_inverse=True: position of a value in the sorted unique array
Inverse(u, l) == Cardinality({v \in u : v < l})

\* dataset.resize(n, axis=0)
ResizeData(data, n) == SubSeq(data, 1, Min(Len(data), n))

\* reading a whole dataset of leading dimension n
ReadData(data, n, fill) ==
    [j \in 1..n |-> IF j <= Len(data) THEN data[j] ELSE fill]

\* dataset[i] = v  (i is 0-based)
WriteData(data, i, v, fill) ==
    [j \in 1..(IF i < Len(data) THEN Len(data) ELSE i + 1) |->
        IF j = i + 1 THEN v ELSE IF j <= Len(data) THEN data[j] ELSE fill]

\* a capacity that is never increased
GrowNone(n) == n

\* int(n_sequences * 1.1)
Grow(n) == (n * 11) \div 10

NoFile == [exists |-> FALSE, hasX |-> FALSE, nX |-> 0, nY |-> 0,
           X |-> <<>>, y |-> <<>>]

\* with h5py.File(cache, mode='w'); fp.create_dataset('y', shape=(n_sequences,))
CreateFile(n) == [exists |-> TRUE, hasX |-> FALSE, nX |-> 0, nY |-> n,
                  X |-> <<>>, y |-> <<>>]

\* fp.create_dataset('X', shape=(n_sequences, n_samples, n_features))
CreateX(f, n) == [f EXCEPT !.hasX = TRUE, !.nX = n]

\* a resize that forgets dataset 'X'
ResizeOnlyY(f, n) == [f EXCEPT !.nY = n, !.y = ResizeData(@, n)]

\* y.resize(n, axis=0); X.resize(n, axis=0)
Resize(f, n) == [f EXCEPT !.nY = n, !.nX = n,
                          !.y = ResizeData(@, n), !.X = ResizeData(@, n)]

\* ---- SequenceGenerator ------------------------------------------------
NewSampler == [pass |-> {}, label |-> -1, left |-> 0]

\* pc: "new" (no constructor call yet), "unstarted" (generator created, body
\* not entered), "building" (inside _precompute), "suspended" (at a yield),
\* "running" (inside the sampling loop), "raised" (the generator died with an
\* exception), "failed" (the constructor raised); "stopped" counts the pulls
\* that found the generator finished
NewSG == [pc |-> "new", by |-> "init", found |-> FALSE, i |-> -1,
          n_sequences |-> 0, X |-> <<>>, y |-> <<>>,
          unique |-> {}, n_labels |-> -1, mode |-> "none", open |-> FALSE,
          consumed |-> 0, precomputed |-> 0, sampler |-> NewSampler,
          drawn |-> <<>>, out |-> <<>>, pulls |-> 0, stopped |-> 0,
          err |-> <<>>]

\* the value of the bare "yield" that ends the warm-up
Sentinel == [X |-> "None", y |-> -1, d |-> 0, n |-> 1]

\* pc: "new", "ready" (constructed), "failed" (the constructor raised),
\* "broken" (an exception left the batch loop)
NewDBG == [pc |-> "new", n_labels |-> -1, batch_ |-> <<>>, delivered |-> <<>>,
           embedding |-> 0, posts |-> 0, calls |-> 0, err |-> <<>>]

NoSteps == [type |-> "none", num |-> 0, den |-> 1]

\* an exception leaves __init__: no instance is handed to the caller
Failed(s, e) == [s EXCEPT !.pc = "failed", !.err = <<e>>]

\* unique, y = np.unique(y, return_inverse=True); n_labels; sampler; yield
Warmed(s, X, y) ==
    [s EXCEPT !.pc = "suspended",
              !.out = IF s.by = "caller" THEN <<Sentinel>> ELSE <<>>,
              !.pulls = IF s.by = "caller" THEN 1 ELSE 0,
              !.X = X,
              !.unique = Unique(y),
              !.y = [j \in 1..Len(y) |-> Inverse(Unique(y), y[j])],
              !.n_labels = Cardinality(Unique(y)),
              !.sampler = NewSampler]

\* fp = h5py.File(cache, mode='r'); X = fp['X']; y = fp['y']
Opened(s, f) ==
    LET s1 == [s EXCEPT !.mode = "r", !.open = TRUE]
    IN  IF ~f.hasX THEN Failed(s1, "KeyError")
        ELSE Warmed(s1, <<>>, ReadData(f.y, f.nY, FillY))

\* number of rows of X: the in-memory array or the dataset of the open file
NRows(s, f) == IF s.mode = "r" THEN f.nX ELSE Len(s.X)

\* a read of the row that follows row i
XAtNext(s, f, i) ==
    IF s.mode = "r" THEN ReadData(f.X, f.nX, FillX)[((i + 1) % f.nX) + 1]
    ELSE s.X[((i + 1) % Len(s.X)) + 1]

\* X[i]
XAt(s, f, i) == IF s.mode = "r" THEN ReadData(f.X, f.nX, FillX)[i + 1]
                ELSE s.X[i + 1]

\* a build that does not look for an existing file
AlwaysPrecompute(f) == TRUE

\* elif not os.path.isfile(cache)
MustPrecompute(f) == ~f.exists

\* ---- DerivativeBatchGenerator ----------------------------------------
\* a batch size scaled by the thread count
batch_size_per_thread(c) == c.per_label * c.per_fold * c.per_batch * c.n_threads

\* a batch size that forgets the folds per batch
batch_size_one_fold(c) == c.per_label * c.per_fold

\* batch_size = self.per_label * self.per_fold * self.per_batch
batch_size(c) == c.per_label * c.per_fold * c.per_batch

\* self.n_labels = self.sequence_generator_.n_labels, once the
\* SequenceGenerator constructor has returned
DbgAfter(g, s) ==
    IF ~cfg.wrapped \/ g # Wrapped THEN dbg
    ELSE IF s.pc = "suspended"
         THEN [dbg EXCEPT !.pc = "ready", !.n_labels = s.n_labels]
    ELSE IF s.pc = "failed"
         THEN [dbg EXCEPT !.pc = "failed", !.err = s.err]
    ELSE IF s.pc = "unstarted" /\ dbg.pc = "new"
         THEN [dbg EXCEPT !.pc = "failed", !.err = <<"AttributeError">>]
    ELSE dbg

\* ---- construction -----------------------------------------------------
\* a constructor that creates the generator and leaves it untouched
LeavesFirstElement == FALSE

\* __init__ ends with next(self.sequence_generator_)
ConsumesFirstElement == TRUE

\* SequenceGenerator.__init__: the generator is created and its first element
\* consumed, which runs iter_sequences up to the store build or to its first
\* yield.  (A generator whose body was never entered is entered by the first
\* pull of a caller.)
Begin(g) ==
    /\ g \in Gens
    /\ sg[g].pc \in {"new", "unstarted"}
    \* instances share a cache location only while none of them builds it
    /\ \A h \in Gens : sg[h].pc # "building"
    /\ LET s == [sg[g] EXCEPT !.by = IF sg[g].pc = "new" THEN "init"
                                     ELSE "caller",
                              !.found = file.exists]
       IN  IF sg[g].pc = "new" /\ ~ConsumesFirstElement
           THEN /\ sg' = [sg EXCEPT ![g].pc = "unstarted"]
                /\ UNCHANGED file
           ELSE IF ~cfg.cache
           THEN /\ sg' = [sg EXCEPT ![g] =
                            IF Len(corpus) = 0
                            THEN Failed(s, "ValueError")
                            ELSE Warmed([s EXCEPT !.consumed = Len(corpus)],
                                    [j \in 1..Len(corpus) |-> corpus[j].X],
                                    [j \in 1..Len(corpus) |-> corpus[j].y])]
                /\ UNCHANGED file
           ELSE IF MustPrecompute(file)
           THEN /\ file' = CreateFile(InitialCapacity)
                /\ sg' = [sg EXCEPT ![g] =
                            [s EXCEPT !.pc = "building",
                                      !.n_sequences = InitialCapacity,
                                      !.precomputed = @ + 1]]
           ELSE /\ sg' = [sg EXCEPT ![g] = Opened(s, file)]
                /\ UNCHANGED file
    /\ dbg' = DbgAfter(g, sg'[g])
    /\ UNCHANGED <<cfg, corpus, steps>>

\* one iteration of the loop of _precompute
Write(g) ==
    /\ g \in Gens
    /\ sg[g].pc = "building"
    /\ sg[g].consumed < Len(corpus)
    /\ LET s == sg[g]
           i == s.consumed
           f1 == IF i = 0 THEN CreateX(file, s.n_sequences) ELSE file
           n1 == IF i = s.n_sequences THEN Grow(s.n_sequences)
                 ELSE s.n_sequences
           f2 == IF i = s.n_sequences THEN Resize(f1, n1) ELSE f1
       IN  IF i < f2.nY /\ i < f2.nX
           THEN /\ file' = [f2 EXCEPT
                              !.y = WriteData(@, i, corpus[i + 1].y, FillY),
                              !.X = WriteData(@, i, corpus[i + 1].X, FillX)]
                /\ sg' = [sg EXCEPT ![g].i = i, ![g].n_sequences = n1,
                                    ![g].consumed = i + 1]
           ELSE /\ file' = f2
                /\ sg' = [sg EXCEPT ![g] =
                            Failed([s EXCEPT !.i = i, !.n_sequences = n1,
                                             !.consumed = i + 1],
                                   "IndexError")]
    /\ dbg' = DbgAfter(g, sg'[g])
    /\ UNCHANGED <<cfg, corpus, steps>>

\* the stream is exhausted: final resize, then the store is read back
Finish(g) ==
    /\ g \in Gens
    /\ sg[g].pc = "building"
    /\ sg[g].consumed = Len(corpus)
    /\ IF sg[g].i = -1
       THEN /\ sg' = [sg EXCEPT ![g] = Failed(sg[g], "UnboundLocalError")]
            /\ UNCHANGED file
       ELSE /\ file' = Resize(file, sg[g].i)
            /\ sg' = [sg EXCEPT ![g] = Opened(sg[g], file')]
    /\ dbg' = DbgAfter(g, sg'[g])
    /\ UNCHANGED <<cfg, corpus, steps>>

\* the instance is the one a DerivativeBatchGenerator pulls from
Owned(g) == cfg.wrapped /\ g = Wrapped

\* the batch loop of the base class (BaseBatchGenerator): it pulls from the
\* SequenceGenerator, adds each sample to the batch being filled and, once
\* batch_size samples are in, packs them and calls postprocess
BatchAdd(d, sample) == [d EXCEPT !.batch_ = Append(@, sample)]

BatchFull(d, c) == Len(d.batch_) = batch_size(c)

BatchRoom(d, c) == Len(d.batch_) < batch_size(c)

\* the packed batch: (sequences, labels)
Pack(b) == [sequences |-> [k \in 1..Len(b) |-> b[k].X],
            labels |-> [k \in 1..Len(b) |-> b[k].y]]

\* an exception that leaves the pulled generator leaves the batch loop too
BatchBreak(d, e) == [d EXCEPT !.pc = "broken", !.err = e]

\* ---- sampling ---------------------------------------------------------
\* indices of the rows carrying the dense label l
LabelRows(s, l) == {j \in 0..(Len(s.y) - 1) : s.y[j + 1] = l}

\* random_label_index(y, per_label, return_label=False): the next index and
\* the sampler's next state.  Labels are visited in shuffled passes over all
\* labels; per_label consecutive indices share one label.
SamplerDraws(s, per_label) ==
    IF s.sampler.left > 0
    THEN {[i |-> j, sampler |-> [s.sampler EXCEPT !.left = @ - 1]] :
             j \in LabelRows(s, s.sampler.label)}
    ELSE LET src == IF s.sampler.pass = {} THEN 0..(s.n_labels - 1)
                    ELSE s.sampler.pass
         IN  UNION {{[i |-> j,
                      sampler |-> [pass |-> src \ {l}, label |-> l,
                                   left |-> per_label - 1]] :
                        j \in LabelRows(s, l)} : l \in src}

DrawBound == IF cfg.wrapped THEN MaxDrawsBatch
             ELSE IF cfg.n_gens = 1 THEN MaxDraws ELSE MaxDrawsShared

\* a loop body that raises on a NaN row whatever "robust" is
OutcomeNoRetry(X_, robust) == IF AnyIsNan(X_) THEN "raise" ELSE "yield"

\* a loop body whose "continue" is missing: the NaN row falls through
OutcomeFallThrough(X_, robust) ==
    IF AnyIsNan(X_) /\ ~robust THEN "raise" ELSE "yield"

\* what one iteration of the sampling loop does with the row it drew:
\* "continue", "raise" or "yield"
Outcome(X_, robust) ==
    IF AnyIsNan(X_) THEN (IF robust THEN "continue" ELSE "raise")
    ELSE "yield"

\* a generator that survives the exception it raised
RaisedResumable(s, e) == [s EXCEPT !.pc = "suspended", !.err = e]

\* raise ValueError(msg.format(i=i)): the exception leaves the generator,
\* which is finished from then on
Raised(s, e) == [s EXCEPT !.pc = "raised", !.err = e]

\* one iteration of the "while True" loop of iter_sequences, entered by a
\* call of __next__ (pc = "suspended") or by "continue" (pc = "running").
\* The draws, the returned samples and the pulls are recorded while
\* cfg.history holds; a stream that is followed forever keeps the last
\* draw and the last returned sample only.
Iterate(g) ==
    /\ g \in Gens
    /\ sg[g].pc \in {"suspended", "running"}
    /\ cfg.history => Len(sg[g].drawn) < DrawBound
    /\ Owned(g) => dbg.pc = "ready" /\ BatchRoom(dbg, cfg)
    /\ \E d \in SamplerDraws(sg[g], cfg.per_label) :
          LET s == sg[g]
              inside == d.i < NRows(s, file)
              X_ == IF inside THEN XAt(s, file, d.i) ELSE "None"
              y_ == s.y[d.i + 1]
              s1 == [s EXCEPT !.sampler = d.sampler,
                              !.drawn = IF cfg.history THEN Append(@, d.i)
                                        ELSE <<d.i>>,
                              !.pulls = IF s.pc = "suspended" /\ cfg.history
                                        THEN @ + 1 ELSE @]
              sample == [X |-> X_, y |-> y_, d |-> Len(s1.drawn),
                         n |-> s1.pulls]
              o == IF inside THEN Outcome(X_, cfg.robust) ELSE "raise"
              e == IF inside THEN <<"ValueError", d.i>>
                   ELSE <<"IndexError", d.i>>
          IN  /\ sg' = [sg EXCEPT ![g] =
                    IF o = "continue" THEN [s1 EXCEPT !.pc = "running"]
                    ELSE IF o = "raise"
                    THEN Raised(s1, e)
                    ELSE [s1 EXCEPT !.pc = "suspended",
                                    !.out = IF cfg.history
                                            THEN Append(@, sample)
                                            ELSE <<sample>>]]
              /\ dbg' = IF ~Owned(g) \/ o = "continue" THEN dbg
                        ELSE IF o = "raise"
                        THEN BatchBreak(dbg, e)
                        ELSE BatchAdd(dbg, sample)
    /\ UNCHANGED <<cfg, corpus, file, steps>>

\* __next__ on an instance whose generator has raised: next() of a finished
\* generator raises StopIteration and returns nothing
NextAfterRaise(g) ==
    /\ g \in Gens
    /\ sg[g].pc = "raised"
    /\ sg[g].stopped < MaxLatePulls
    /\ sg' = [sg EXCEPT ![g].stopped = @ + 1]
    /\ UNCHANGED <<cfg, corpus, file, dbg, steps>>

\* ---- batches ----------------------------------------------------------
\* a transform by the embedding that was registered first
TransformFirst(e, sequences, sub) ==
    [embedding |-> 1, of |-> sequences, sub |-> sub]

\* self.embedding.transform(sequences, batch_size=per_fold * per_label)
Transform(e, sequences, sub) == [embedding |-> e, of |-> sequences, sub |-> sub]

\* [costs, derivatives] = self.compute_derivatives(embeddings, labels)
Derivatives(embeddings, labels) == [from |-> embeddings, labels |-> labels]

\* an "embedding" attribute that exists (as None) from construction on
EmbeddingPreset(d) == TRUE

\* self.embedding: the attribute exists once the callback has assigned it
HasEmbedding(d) == d.embedding # 0

\* postprocess(batch), called by the batch loop on every full batch; what it
\* returns is the batch the caller receives
Postprocess ==
    /\ dbg.pc = "ready"
    /\ BatchFull(dbg, cfg)
    /\ LET sequences == Pack(dbg.batch_).sequences
           labels == Pack(dbg.batch_).labels
           embeddings == Transform(dbg.embedding, sequences,
                                   cfg.per_fold * cfg.per_label)
       IN  dbg' = IF HasEmbedding(dbg)
                  THEN [dbg EXCEPT
                          !.posts = @ + 1,
                          !.delivered = Append(@,
                              [samples |-> dbg.batch_,
                               sequences |-> sequences,
                               derivatives |-> Derivatives(embeddings, labels)]),
                          !.batch_ = <<>>,
                          !.calls = @ + 1]
                  ELSE [dbg EXCEPT !.posts = @ + 1,
                                   !.pc = "broken",
                                   !.err = <<"AttributeError">>]
    /\ UNCHANGED <<cfg, corpus, file, sg, steps>>

\* UpdateGeneratorEmbedding: generator.embedding = extract_embedding
Callback(e) ==
    /\ dbg.pc = "ready"
    /\ dbg.embedding # e
    /\ dbg' = [dbg EXCEPT !.embedding = e]
    /\ UNCHANGED <<cfg, corpus, file, sg, steps>>

\* n_folds = self.n_labels / self.per_fold + 1 : "/" floors two ints under
\* Python 2 and is the true division under Python 3
StepsPerEpoch(n_labels, per_fold, py) ==
    IF py = 2
    THEN [type |-> "int", num |-> (n_labels \div per_fold) + 1, den |-> 1]
    ELSE [type |-> "float", num |-> n_labels + per_fold, den |-> per_fold]

GetStepsPerEpoch(py) ==
    /\ dbg.pc = "ready"
    /\ steps' = StepsPerEpoch(dbg.n_labels, cfg.per_fold, py)
    /\ UNCHANGED <<cfg, corpus, file, sg, dbg>>

\* ---- specifications ---------------------------------------------------
Corpora(rows, n) == UNION {[1..k -> rows] : k \in 0..n}

Config == [cache : BOOLEAN, robust : BOOLEAN, per_label : PerLabelValues,
           per_fold : PerFoldValues, per_batch : PerBatchValues,
           n_threads : NThreadsValues, n_gens : {1, 2}, wrapped : BOOLEAN,
           history : BOOLEAN]

\* the arguments a bare SequenceGenerator does not take
Bare(c) == /\ ~c.wrapped
           /\ c.per_fold = 1 /\ c.per_batch = 1 /\ c.n_threads = 1

Fresh ==
    /\ file = NoFile
    /\ sg = [g \in 1..2 |-> NewSG]
    /\ dbg = NewDBG
    /\ steps = NoSteps

\* one SequenceGenerator, pulled by its caller
Init ==
    /\ cfg \in {c \in Config : Bare(c) /\ c.n_gens = 1 /\ c.history}
    /\ corpus \in Corpora(Row, MaxRows)
    /\ Fresh

Next ==
    \/ \E g \in Gens : Begin(g)
    \/ \E g \in Gens : Write(g)
    \/ \E g \in Gens : Finish(g)
    \/ \E g \in Gens : Iterate(g)
    \/ \E g \in Gens : NextAfterRaise(g)

Spec == Init /\ [][Next]_vars

\* two SequenceGenerator instances on one cache location
InitShared ==
    /\ cfg \in {c \in Config : Bare(c) /\ c.n_gens = 2 /\ c.cache
                                  /\ c.history}
    /\ corpus \in Corpora(Row, MaxRowsShared)
    /\ Fresh

SpecShared == InitShared /\ [][Next]_vars

\* one DerivativeBatchGenerator and the SequenceGenerator it owns
InitBatch ==
    /\ cfg \in {c \in Config : c.wrapped /\ c.n_gens = 1 /\ c.history}
    /\ corpus \in Corpora([X : {"finite", "nan"}, y : Labels], MaxRowsBatch)
    /\ Fresh

NextBatch ==
    \/ Begin(Wrapped)
    \/ Write(Wrapped)
    \/ Finish(Wrapped)
    \/ Iterate(Wrapped)
    \/ NextAfterRaise(Wrapped)
    \/ Postprocess
    \/ \E e \in Embeddings : Callback(e)

SpecBatch == InitBatch /\ [][NextBatch]_vars

\* get_steps_per_epoch on generators built from corpora of n distinct labels
DistinctCorpus(n) == [j \in 1..n |-> [X |-> "finite", y |-> j]]

InitSteps ==
    /\ cfg \in [cache : BOOLEAN, robust : {FALSE}, per_label : {1},
                per_fold : 1..MaxPerFoldSteps, per_batch : {1},
                n_threads : {1}, n_gens : {1}, wrapped : {TRUE},
                history : {TRUE}]
    /\ corpus \in {DistinctCorpus(n) : n \in 0..MaxNLabels}
    /\ Fresh

NextSteps ==
    \/ Begin(Wrapped)
    \/ Write(Wrapped)
    \/ Finish(Wrapped)
    \/ \E py \in Pythons : GetStepsPerEpoch(py)

SpecSteps == InitSteps /\ [][NextSteps]_vars

\* the on-disk build of streams long enough for the capacity to grow; row j
\* of the stream is a function of j, so that rows differ from their
\* neighbours in both columns
LongRow(j) == [X |-> IF j % 3 = 0 THEN "nan"
                     ELSE IF j % 3 = 1 THEN "finite" ELSE "inf",
               y |-> IF j % 2 = 0 THEN 3 ELSE 7]

LongCorpus(n) == [j \in 1..n |-> LongRow(j)]

InitBuild ==
    /\ cfg \in {c \in Config : Bare(c) /\ c.n_gens = 1 /\ c.cache
                                  /\ c.per_label = 1 /\ c.history}
    /\ corpus \in {LongCorpus(n) :
                      n \in {InitialCapacity, InitialCapacity + 1,
                             Grow(InitialCapacity), MaxRowsBuild}}
    /\ Fresh

NextBuild ==
    \/ Begin(1)
    \/ Write(1)
    \/ Finish(1)

SpecBuild == InitBuild /\ [][NextBuild]_vars

\* one SequenceGenerator whose stream is pulled forever.  Inside a pull the
\* loop of iter_sequences runs on by itself (weak fairness of Iterate); that
\* the sampler yields the index of a row without NaN infinitely often is
\* the proviso under which the stream is expected to go on (strong fairness
\* of Returns).
Returns(g) == Iterate(g) /\ sg'[g].pc = "suspended"

InitLive ==
    /\ cfg \in {c \in Config : Bare(c) /\ c.n_gens = 1 /\ ~c.history}
    /\ corpus \in Corpora(Row, MaxRowsLive)
    /\ Fresh

SpecLive ==
    /\ InitLive
    /\ [][Next]_vars
    /\ WF_vars(Iterate(1))
    /\ SF_vars(Returns(1))

\* ======================================================================
\* Properties
\* ======================================================================
\* samples per fold
FoldSize(c) == c.per_label * c.per_fold

\* the k-th fold of a stream of samples
Fold(stream, c, k) == SubSeq(stream, (k - 1) * FoldSize(c) + 1, k * FoldSize(c))

FoldLabels(fold) == {fold[p].y : p \in 1..Len(fold)}

CountLabel(fold, l) == Cardinality({p \in 1..Len(fold) : fold[p].y = l})

\* C1: every complete fold of the stream pulled from the SequenceGenerator
\* holds exactly per_fold distinct labels, each exactly per_label times
C1_FoldCardinality ==
    LET stream == sg[Wrapped].out
    IN  \A k \in 1..(Len(stream) \div FoldSize(cfg)) :
           LET fold == Fold(stream, cfg, k)
           IN  /\ Cardinality(FoldLabels(fold)) = cfg.per_fold
               /\ \A l \in FoldLabels(fold) :
                     CountLabel(fold, l) = cfg.per_label

\* the constructor of the instance has returned
Constructed(g) == sg[g].pc \in {"unstarted", "suspended", "running", "raised"}

\* row i of the sequences the instance g samples from
StoreX(g, i) == XAt(sg[g], file, i)

\* C2: the store built on disk from a stream of K >= 1 pairs holds exactly
\* K rows in 'X' and in 'y', row j being the j-th pair of the stream
C2_RoundTrip ==
    \A g \in Gens :
       (cfg.cache /\ sg[g].precomputed = 1 /\ Constructed(g)
          /\ Len(corpus) >= 1)
       => /\ file.nX = Len(corpus)
          /\ file.nY = Len(corpus)
          /\ ReadData(file.X, file.nX, FillX)
                = [j \in 1..Len(corpus) |-> corpus[j].X]
          /\ ReadData(file.y, file.nY, FillY)
                = [j \in 1..Len(corpus) |-> corpus[j].y]

\* a sequence holds a value that is not finite
NonFinite(X_) == X_ \in {"nan", "inf"}

\* C3 as claimed: in non-robust mode no pull returns a sequence holding a
\* non-finite value (NaN or infinity)
C3_NoNonFinite ==
    ~cfg.robust =>
       \A g \in Gens : \A k \in 1..Len(sg[g].out) :
          ~NonFinite(sg[g].out[k].X)

\* C3 as amended: in non-robust mode every sampled row is tested for NaN;
\* a row without NaN is returned by the pull, a row with NaN ends the pull
\* with the ValueError that names the row's index
C3_NoNaNOrValueError ==
    ~cfg.robust =>
       \A g \in Gens :
          LET s == sg[g]
              n == Len(s.drawn)
          IN  /\ \A k \in 1..Len(s.out) : s.out[k].X # "nan"
              /\ \A d \in 1..n :
                    IF StoreX(g, s.drawn[d]) = "nan"
                    THEN /\ d = n
                         /\ s.pc = "raised"
                         /\ s.err = <<"ValueError", s.drawn[d]>>
                    ELSE /\ d <= Len(s.out)
                         /\ s.out[d].d = d
                         /\ s.out[d].X = StoreX(g, s.drawn[d])
              /\ s.pc = "raised" => n > 0 /\ StoreX(g, s.drawn[n]) = "nan"
              /\ s.pulls = Len(s.out) + (IF s.pc = "raised" THEN 1 ELSE 0)

C3_Witness ==
    /\ ~cfg.robust
    /\ sg[1].pc = "raised"
    /\ \E k \in 1..Len(sg[1].out) : sg[1].out[k].X = "inf"

\* the ordinals of the draws whose row holds no NaN, in drawing order
KeptDraws(g) ==
    SelectSeq([d \in 1..Len(sg[g].drawn) |-> d],
              LAMBDA d : StoreX(g, sg[g].drawn[d]) # "nan")

\* C4: in robust mode a sampled row holding NaN is neither returned nor
\* raised; the returned stream is the sampler's index stream without the
\* NaN rows, in the same order
C4_RobustSkips ==
    cfg.robust =>
       \A g \in Gens :
          LET s == sg[g]
          IN  /\ s.pc # "raised"
              /\ \A k \in 1..Len(s.out) : s.out[k].X # "nan"
              /\ [k \in 1..Len(s.out) |-> s.out[k].d] = KeptDraws(g)
              /\ \A k \in 1..Len(s.out) :
                    s.out[k].X = StoreX(g, s.drawn[s.out[k].d])

C4_Witness ==
    /\ cfg.robust
    /\ \E k \in 1..Len(sg[1].out) : \E d \in 1..Len(sg[1].drawn) :
          /\ d < sg[1].out[k].d
          /\ StoreX(1, sg[1].drawn[d]) = "nan"

\* the lifecycle of a SequenceGenerator: UNINITIALIZED ("new"), WARMING_UP
\* ("building"), STREAMING ("suspended", "running"), and the two ways out by
\* an exception
Lifecycle ==
    {<<"new", "building">>, <<"new", "suspended">>, <<"new", "failed">>,
     <<"building", "building">>, <<"building", "suspended">>,
     <<"building", "failed">>,
     <<"suspended", "suspended">>, <<"suspended", "running">>,
     <<"suspended", "raised">>,
     <<"running", "running">>, <<"running", "suspended">>,
     <<"running", "raised">>}

C5_Returned ==
    \A g \in Gens :
       LET s == sg[g]
       IN  /\ Constructed(g) =>
                /\ s.n_labels >= 0
                /\ s.n_labels = Cardinality(s.unique)
                /\ s.consumed = (IF s.precomputed = 1 \/ ~cfg.cache
                                 THEN Len(corpus) ELSE 0)
           /\ s.pc \in {"new", "building", "failed"} =>
                s.out = <<>> /\ s.pulls = 0
           /\ \A k \in 1..Len(s.out) :
                /\ s.out[k] # Sentinel
                /\ s.out[k].X \in Kinds
                /\ s.out[k].y \in 0..(s.n_labels - 1)
           /\ s.precomputed <= 1

C5_Step ==
    \A g \in Gens :
       /\ sg'[g].pc # sg[g].pc => <<sg[g].pc, sg'[g].pc>> \in Lifecycle
       /\ sg[g].n_labels # -1 => sg'[g].n_labels = sg[g].n_labels
       /\ sg'[g].precomputed > sg[g].precomputed => sg[g].pc = "new"

\* C5: a SequenceGenerator goes UNINITIALIZED -> WARMING_UP -> STREAMING;
\* when its constructor has returned the store is materialized and n_labels
\* is set, and n_labels never changes afterwards; a pull of a caller returns
\* a (sequence, label-integer) pair, never the warm-up sentinel; the store is
\* built at most once per instance
C5_Lifecycle == [](C5_Returned) /\ [][C5_Step]_vars

C5_Witness ==
    /\ cfg.cache
    /\ sg[1].precomputed = 1
    /\ sg[1].n_labels = 2
    /\ Len(sg[1].out) >= 2

\* C6: an instance constructed on a cache location that already holds a
\* file does not call _precompute, does not consume the corpus, opens the
\* file read-only and sees the row count and n_labels of the builder
C6_ReuseNoRebuild ==
    \A g \in Gens :
       sg[g].found =>
          /\ sg[g].precomputed = 0
          /\ sg[g].consumed = 0
          /\ sg[g].pc # "building"
          /\ sg[g].open => sg[g].mode = "r"
          /\ \A h \in Gens :
                (Constructed(g) /\ Constructed(h)) =>
                   /\ Len(sg[g].y) = Len(sg[h].y)
                   /\ sg[g].n_labels = sg[h].n_labels

C6_Witness ==
    \E g, h \in Gens :
       /\ sg[g].found /\ ~sg[h].found
       /\ sg[g].pc = "suspended" /\ sg[h].pc = "suspended"
       /\ sg[h].precomputed = 1
       /\ sg[g].n_labels >= 1

\* C7: a postprocess call made while no embedding was ever registered fails
\* (AttributeError), returns no pair and does not call compute_derivatives;
\* no returned pair was computed without an embedding
C7_NotReady ==
    /\ \A k \in 1..Len(dbg.delivered) :
          dbg.delivered[k].derivatives.from.embedding \in Embeddings
    /\ dbg.calls = Len(dbg.delivered)
    /\ dbg.posts \in {dbg.calls, dbg.calls + 1}
    /\ dbg.posts = dbg.calls + 1 =>
          /\ dbg.pc = "broken"
          /\ dbg.err = <<"AttributeError">>
          /\ dbg.embedding = 0

C7_Witness ==
    /\ dbg.pc = "broken"
    /\ dbg.err = <<"AttributeError">>
    /\ dbg.posts = 1
    /\ dbg.delivered = <<>>

C9_BatchesInArrivalOrder ==
    LET out == sg[Wrapped].out
        B == cfg.per_label * cfg.per_fold * cfg.per_batch
        n == Len(dbg.delivered)
    IN  /\ \A k \in 1..n :
              /\ Len(dbg.delivered[k].samples) = B
              /\ \A p \in 1..Len(dbg.delivered[k].samples) :
                    /\ (k - 1) * B + p <= Len(out)
                    /\ dbg.delivered[k].samples[p] = out[(k - 1) * B + p]
                    /\ dbg.delivered[k].samples[p].n = (k - 1) * B + p
                    /\ dbg.delivered[k].sequences[p] = out[(k - 1) * B + p].X
        /\ Len(out) = n * B + Len(dbg.batch_)
        /\ \A p \in 1..Len(dbg.batch_) : dbg.batch_[p] = out[n * B + p]
        /\ Len(dbg.batch_) <= B

C9_Witness ==
    /\ cfg.per_batch = 2
    /\ Len(dbg.delivered) = 2
    /\ dbg.delivered[1].samples[1].y # dbg.delivered[1].samples[2].y

\* C10: get_steps_per_epoch returns floor(n_labels / per_fold) + 1
C10_StepsFloor ==
    steps.type # "none" =>
       steps.num = steps.den * ((dbg.n_labels \div cfg.per_fold) + 1)

\* the label column of the store of the instance g, as np.unique receives it
StoreLabels(g) == IF sg[g].mode = "r" THEN ReadData(file.y, file.nY, FillY)
                  ELSE [j \in 1..Len(corpus) |-> corpus[j].y]

\* the instance is past its warm-up: it streams, or its stream has ended
Streaming(g) == sg[g].pc \in {"suspended", "running", "raised"}

\* C11: once the store is built, n_labels is the number of distinct original
\* labels of its rows, every returned label lies in 0..n_labels-1, two rows
\* carry the same integer exactly when they carried the same original label,
\* and the integer of a row is the rank of its original label among the
\* sorted distinct labels
C11_DenseLabels ==
    \A g \in Gens :
       Streaming(g) =>
          LET s == sg[g]
              orig == StoreLabels(g)
              U == {orig[j] : j \in 1..Len(orig)}
          IN  /\ Len(s.y) = Len(orig)
              /\ s.n_labels = Cardinality(U)
              /\ \A k \in 1..Len(s.out) : s.out[k].y \in 0..(s.n_labels - 1)
              /\ \A j, k \in 1..Len(orig) :
                    (s.y[j] = s.y[k]) <=> (orig[j] = orig[k])
              /\ \A j \in 1..Len(orig) :
                    s.y[j] = Cardinality({v \in U : v < orig[j]})

C11_Witness ==
    /\ Streaming(1)
    /\ sg[1].n_labels = 2
    /\ Len(StoreLabels(1)) >= 2
    /\ StoreLabels(1)[1] = 7
    /\ StoreLabels(1)[2] = 3
    /\ \E k \in 1..Len(sg[1].out) :
          sg[1].out[k].y = 1 /\ sg[1].drawn[sg[1].out[k].d] = 0

\* C12: in on-disk mode no exit of the stream leaves the handle opened by
\* iter_sequences open: when a pull has ended with an exception the handle
\* is closed
C12_HandleClosed ==
    \A g \in Gens : sg[g].pc \in {"raised", "failed"} => ~sg[g].open

\* C13: a ValueError raised by a non-robust pull ends the stream: the
\* generator is finished, no sample drawn after the failing draw is ever
\* returned, every later pull ends with StopIteration, the batch loop is
\* left with the same exception, and neither the batch being filled nor any
\* batch with a later sample is delivered; in robust mode, or when no row
\* of the store holds NaN, the stream never ends
C13_FatalFailure ==
    LET s == sg[Wrapped]
        n == Len(s.drawn)
        B == cfg.per_label * cfg.per_fold * cfg.per_batch
    IN  /\ (s.err # <<>> /\ s.pc # "failed") =>
              /\ s.pc = "raised"
              /\ ~cfg.robust
              /\ n > 0
              /\ StoreX(Wrapped, s.drawn[n]) = "nan"
              /\ s.err = <<"ValueError", s.drawn[n]>>
              /\ \A k \in 1..Len(s.out) : s.out[k].d < n
              /\ Len(s.out) = s.pulls - 1
              /\ dbg.pc = "broken"
              /\ dbg.err = s.err
              /\ \A k \in 1..Len(dbg.delivered) :
                    \A p \in 1..Len(dbg.delivered[k].samples) :
                       dbg.delivered[k].samples[p].d < n
              /\ Len(s.out) = Len(dbg.delivered) * B + Len(dbg.batch_)
              /\ Len(dbg.batch_) < B
        /\ s.stopped > 0 => s.pc = "raised" /\ s.err # <<>>
        /\ (cfg.robust
              \/ \A j \in 0..(NRows(s, file) - 1) :
                    StoreX(Wrapped, j) # "nan")
           => s.pc # "raised"

C13_Witness ==
    /\ sg[Wrapped].pc = "raised"
    /\ sg[Wrapped].stopped >= 1
    /\ Len(dbg.delivered) >= 1
    /\ Len(dbg.batch_) >= 1

\* the capacity reached from c by the growth steps that a write at row i
\* requires
RECURSIVE CapacityAt(_, _)
CapacityAt(c, i) == IF i < c THEN c ELSE CapacityAt((c * 11) \div 10, i)

\* C14: during the on-disk build the capacity starts at 1000 and is
\* replaced by int(capacity * 1.1) exactly when the write cursor equals it;
\* every write is at a row strictly below the capacity of both datasets
\* (no write fails out of bounds), and a growth step increases the capacity
C14_CapacityGrowth ==
    \A g \in Gens :
       LET s == sg[g]
       IN  /\ s.pc = "building" =>
                /\ s.n_sequences
                      = (IF s.i = -1 THEN InitialCapacity
                         ELSE CapacityAt(InitialCapacity, s.i))
                /\ s.n_sequences >= InitialCapacity
                /\ s.i < s.n_sequences
                /\ file.nY = s.n_sequences
                /\ s.i >= 0 => file.hasX /\ file.nX = s.n_sequences
                /\ s.consumed = s.i + 1
           /\ s.pc = "failed" => s.err # <<"IndexError">>

C14_Witness ==
    /\ sg[1].pc = "building"
    /\ sg[1].i = 1100
    /\ sg[1].n_sequences = 1210
    /\ Len(file.X) = 1101

\* C15: from the creation of dataset 'X' on, after every growth step and
\* after the final truncation, 'X' and 'y' have the same leading dimension,
\* and every row up to the write cursor is written in both columns
C15_SameRowCount ==
    \A g \in Gens :
       (cfg.cache /\ file.hasX) =>
          /\ file.nX = file.nY
          /\ Len(file.X) = Len(file.y)
          /\ sg[g].pc = "building" =>
                /\ Len(file.X) = sg[g].i + 1
                /\ \A j \in 1..(sg[g].i + 1) :
                      /\ file.X[j] = corpus[j].X
                      /\ file.y[j] = corpus[j].y

C15_Witness ==
    /\ sg[1].pc = "suspended"
    /\ sg[1].n_sequences = 1210
    /\ file.hasX
    /\ file.nX = 1100
    /\ file.nY = 1100

\* a row of the store of the instance g holds no NaN
SomeRowWithoutNaN(g) ==
    \E j \in 0..(NRows(sg[g], file) - 1) : StoreX(g, j) # "nan"

\* C16: in robust mode no pull raises, the sampler always has a next index
\* for a store that is not empty (it repeats rows), and a pull that is
\* skipping NaN rows eventually returns a sample when the store holds a row
\* without NaN
C16_RobustPullReturns ==
    /\ [](cfg.robust => sg[1].pc # "raised")
    /\ []((cfg.robust /\ sg[1].pc \in {"suspended", "running"}
             /\ Len(sg[1].y) > 0)
          => SamplerDraws(sg[1], cfg.per_label) # {})
    /\ (cfg.robust /\ sg[1].pc \in {"running", "raised"}
          /\ SomeRowWithoutNaN(1))
       ~> (sg[1].pc = "suspended")

C16_Witness ==
    /\ cfg.robust
    /\ cfg.per_label = 2
    /\ sg[1].pc = "running"
    /\ SomeRowWithoutNaN(1)
    /\ \E l \in 0..(sg[1].n_labels - 1) : Cardinality(LabelRows(sg[1], l)) = 1

\* the read-only part of an instance: its labels, their mapping to integers
\* and its number of labels
Mapping(s) == <<s.y, s.unique, s.n_labels, s.mode>>

C17_Stream ==
    \A g \in Gens :
       (Streaming(g) /\ sg[g].mode = "r") =>
          LET s == sg[g]
              orig == ReadData(file.y, file.nY, FillY)
              U == {orig[j] : j \in 1..Len(orig)}
              kept == KeptDraws(g)
          IN  /\ file.nX = Len(s.y)
              /\ file.nY = Len(s.y)
              /\ s.unique = U
              /\ s.y = [j \in 1..Len(orig) |->
                           Cardinality({v \in U : v < orig[j]})]
              /\ Len(s.out) = Len(kept)
              /\ \A k \in 1..Len(s.out) :
                    /\ s.out[k].d = kept[k]
                    /\ s.out[k].X = StoreX(g, s.drawn[kept[k]])
                    /\ s.out[k].y = s.y[s.drawn[kept[k]] + 1]

C17_Step ==
    /\ (\E g \in Gens : sg[g].mode = "r") => file' = file
    /\ \A g \in Gens :
          sg[g].mode = "r" => Mapping(sg'[g]) = Mapping(sg[g])
    /\ \A g, h \in Gens :
          (g # h /\ sg'[g] # sg[g]) => sg'[h] = sg[h]

\* C17: once an instance has opened the built store, no step changes the
\* file, the instance's labels or their mapping to integers, a step of one
\* instance leaves the others as they are, and the stream every instance
\* has returned is the one its own draws select from the store, whatever
\* the other instances have pulled in between
C17_ReadersUndisturbed == [](C17_Stream) /\ [][C17_Step]_vars

C17_Witness ==
    /\ sg[1].mode = "r" /\ sg[2].mode = "r"
    /\ sg[1].found # sg[2].found
    /\ Len(sg[1].out) = 2
    /\ Len(sg[2].out) = 1
    /\ sg[2].pulls = 1
    /\ sg[1].out[2].X = "inf"

C18_Step ==
    /\ Len(dbg'.delivered) > Len(dbg.delivered) =>
          LET b == dbg'.delivered[Len(dbg'.delivered)]
              sequences == [k \in 1..Len(dbg.batch_) |-> dbg.batch_[k].X]
              labels == [k \in 1..Len(dbg.batch_) |-> dbg.batch_[k].y]
          IN  /\ Len(dbg'.delivered) = Len(dbg.delivered) + 1
              /\ dbg.embedding \in Embeddings
              /\ dbg'.embedding = dbg.embedding
              /\ b.sequences = sequences
              /\ b.derivatives.labels = labels
              /\ b.derivatives.from.embedding = dbg.embedding
              /\ b.derivatives.from.of = sequences
              /\ b.derivatives.from.sub = cfg.per_fold * cfg.per_label
              /\ \A k \in 1..Len(dbg.delivered) :
                    dbg'.delivered[k] = dbg.delivered[k]
    /\ dbg'.embedding # dbg.embedding =>
          /\ dbg'.embedding \in Embeddings
          /\ dbg'.delivered = dbg.delivered
          /\ dbg'.batch_ = dbg.batch_

\* C18: every postprocess call that returns applies the embedding the
\* latest callback invocation registered (the value of self.embedding when
\* it is called), with sub-batches of per_fold * per_label, and returns the
\* sequences of the batch unchanged together with the derivatives computed
\* from these embeddings and the labels of the batch; only a callback
\* invocation changes the registered embedding
C18_LatestEmbedding == [][C18_Step]_vars

C18_Witness ==
    /\ Len(dbg.delivered) = 2
    /\ dbg.delivered[1].derivatives.from.embedding = 2
    /\ dbg.delivered[2].derivatives.from.embedding = 1
    /\ Len(dbg.delivered[2].sequences) = 2

\* C19: the pair a pull returns comes from one row of the store: for the
\* index i the sampler gave, the sequence is the one the stream delivered at
\* row i and the label is the integer of the label the stream delivered
\* with it, in memory and on disk
C19_PairFromOneRow ==
    \A g \in Gens :
       \A k \in 1..Len(sg[g].out) :
          LET s == sg[g]
              i == s.drawn[s.out[k].d]
              orig == StoreLabels(g)
              U == {orig[j] : j \in 1..Len(orig)}
          IN  /\ i + 1 <= Len(orig)
              /\ i + 1 <= Len(corpus)
              /\ orig[i + 1] = corpus[i + 1].y
              /\ s.out[k].X = corpus[i + 1].X
              /\ s.out[k].y = Cardinality({v \in U : v < corpus[i + 1].y})

C19_Witness ==
    /\ cfg.cache
    /\ Len(corpus) = 3
    /\ corpus[1].X # corpus[2].X
    /\ corpus[1].y # corpus[2].y
    /\ \E k \in 1..Len(sg[1].out) :
          /\ sg[1].drawn[sg[1].out[k].d] = 1
          /\ sg[1].out[k].X = "inf"
          /\ sg[1].out[k].y = 0

====
